---- MODULE Spec2Model ----
(***************************************************************************)
(* Model of server/src/services/analytics.services.js: the tag-performance *)
(* aggregation, the peak-time analysis and runAllAnalysesForUser.          *)
(***************************************************************************)
EXTENDS Bags, FiniteSets, Integers, Sequences, TLC

VARIABLES
    sessions,   \* the Session collection: a bag of session documents
    tagPc,      \* TagSpec: "collect" or "evaluated"
    tagResult,  \* TagSpec: what the latest analyzeTagPerformance call returned
    pkPc,       \* PeakSpec: "loop", "returned" or "threw"
    timeBlockRatings,       \* analyzePeakTime's accumulator object
    startHour,              \* analyzePeakTime: startHour of the latest iteration
    block,                  \* analyzePeakTime: block of the latest iteration
    peakProductivityTime,   \* PeakSpec: what analyzePeakTime returned
    pc,         \* per run of runAllAnalysesForUser: the await it stands at
    local,      \* per run: its constants topPerformingTags ... habitAnalysis
    outcome,    \* per run: "none", "success" (console.log), "error" (console.error)
    escaped,    \* per run: whether an exception left runAllAnalysesForUser
    calls,      \* per run: the prompts it passed to model.generateContent
    insights    \* the user's persisted aiInsights

tagVars == <<tagPc, tagResult>>
peakVars == <<pkPc, timeBlockRatings, startHour, block, peakProductivityTime>>
runVars == <<pc, local, outcome, escaped, calls, insights>>
\* What no step of runAllAnalysesForUser touches.
outside == <<sessions, tagVars, peakVars>>
vars == <<sessions, tagVars, peakVars, runVars>>

\* ------------------------------------------------------------------ bounds
MaxRating == 1
MaxSessions == 4

\* ------------------------------------------------------- program constants
MinCount == 2          \* { $match: { count: { $gt: 2 } } }
TopCount == 3          \* slice(0, 3) and slice(-3)

\* ------------------------------------------------------------ data domains
Tags == {"coding", "meetings", "reading", "writing"}
Ratings == 0..MaxRating
TargetUser == "u1"
NoResult == [topPerformingTags |-> <<"?">>, improvementAreaTags |-> <<"?">>]

\* A session document as the two queries see it.  intervals holds the start
\* hour of each interval (only intervals[0] is read; in TLA+ index 1).
SessionDoc(u, st, has, r, tg, iv) ==
    [userId |-> u, status |-> st, hasRating |-> has, rating |-> r,
     tags |-> tg, intervals |-> iv]

\* Documents of the collection that the $match stage must pass over: another
\* user's session, a session not completed, a session without a rating.
Background ==
    SetToBag({SessionDoc("u2", "completed", TRUE, MaxRating, Tags, <<8>>),
              SessionDoc(TargetUser, "active", TRUE, MaxRating, Tags, <<8>>),
              SessionDoc(TargetUser, "completed", FALSE, 0, Tags, <<8>>)})

\* Tag sets of the sessions TagSpec stores: every set of the first three tags,
\* and all four together (so that four tags can reach the sample floor within
\* MaxSessions sessions).
TagSets == (SUBSET (Tags \ {"writing"})) \cup {Tags}
TagDocs ==
    {SessionDoc(TargetUser, "completed", TRUE, r, tg, <<8>>) :
        r \in Ratings, tg \in TagSets}

\* ------------------------------------------------------ analyzeTagPerformance
\* { $match: { userId, status: "completed", rating: { $exists: true } } }
Eligible(s) ==
    s.userId = TargetUser /\ s.status = "completed" /\ s.hasRating

\* $unwind: "$tags" followed by $group by tag: the documents that reach the
\* group of tag t are the matched documents carrying t.
Unwound(db, t) == {d \in BagToSet(db) : Eligible(d) /\ t \in d.tags}

RECURSIVE SumRating(_, _)
\* The $avg accumulator's running total of "$rating" over the documents of D,
\* each as often as the collection holds it.
SumRating(D, db) ==
    IF D = {} THEN 0
    ELSE LET d == CHOOSE x \in D : TRUE
         IN d.rating * CopiesIn(d, db) + SumRating(D \ {d}, db)

RECURSIVE SumOne(_, _)
\* The { $sum: 1 } accumulator over the same documents.
SumOne(D, db) ==
    IF D = {} THEN 0
    ELSE LET d == CHOOSE x \in D : TRUE
         IN CopiesIn(d, db) + SumOne(D \ {d}, db)

\* $group: { _id: "$tags", avgRating: { $avg: "$rating" }, count: { $sum: 1 } }
\* avgRating is kept as the exact quotient total / count.
GroupStage(db) ==
    {LET D == Unwound(db, t)
     IN [_id |-> t, total |-> SumRating(D, db), count |-> SumOne(D, db)] :
        t \in {u \in Tags : Unwound(db, u) # {}}}

\* a.avgRating > b.avgRating, on the exact quotients
AvgGreater(a, b) == a.total * b.count > b.total * a.count

RECURSIVE SortStage(_)
\* { $sort: { avgRating: -1 } }: every arrangement of the groups in which no
\* group is followed by one with a greater average.  The pipeline has no
\* second sort key, so groups with equal averages come in any order.
SortStage(G) ==
    IF G = {} THEN {<< >>}
    ELSE UNION {{<<g>> \o p : p \in SortStage(G \ {g})} :
                  g \in {x \in G : \A y \in G : ~AvgGreater(y, x)}}

\* Mutant of Significant: $gte in place of $gt.
SignificantGte(g) == g.count >= MinCount

\* { $match: { count: { $gt: 2 } } }
Significant(g) == g.count > MinCount
MatchCountStage(p) == SelectSeq(p, Significant)

\* The arrays the aggregate call can return for collection db.
Aggregate(db) == {MatchCountStage(p) : p \in SortStage(GroupStage(db))}

\* Array.prototype.slice(0, n), slice(-n), reverse() and map(p => p._id)
Min(a, b) == IF a < b THEN a ELSE b
SliceFirstOneMore(a, n) == SubSeq(a, 1, Min(n + 1, Len(a)))   \* mutant
SliceFirst(a, n) == SubSeq(a, 1, Min(n, Len(a)))
SliceLast(a, n) == SubSeq(a, Len(a) - Min(n, Len(a)) + 1, Len(a))
ReverseOmitted(a) == a                                         \* mutant
Reverse(a) == [i \in 1..Len(a) |-> a[Len(a) + 1 - i]]
Ids(a) == [i \in 1..Len(a) |-> a[i]._id]

TagResult(performance) ==
    [topPerformingTags |-> Ids(SliceFirst(performance, TopCount)),
     improvementAreaTags |-> Reverse(Ids(SliceLast(performance, TopCount)))]

\* The values analyzeTagPerformance can return for collection db.
analyzeTagPerformance(db) == {TagResult(p) : p \in Aggregate(db)}

\* ------------------------------------------------------------ analyzePeakTime
Morning == "Morning (6am-12pm)"
Afternoon == "Afternoon (12pm-5pm)"
Evening == "Evening (5pm-10pm)"
Night == "Night (10pm-6am)"
NotEnoughData == "Not enough data"

\* The keys of timeBlockRatings in the order for...in visits them.
BlockOrder == <<Morning, Afternoon, Evening, Night>>
Blocks == {Morning, Afternoon, Evening, Night}
Hours == 0..23

\* const timeBlockRatings = { ...: { totalRating: 0, count: 0 }, ... }
EmptyRatings == [b \in Blocks |-> [totalRating |-> 0, count |-> 0]]

\* Mutant of BlockOf: the lower bounds compared with > in place of >=.
BlockOfExclusive(h) ==
    IF h > 6 /\ h < 12 THEN Morning
    ELSE IF h > 12 /\ h < 17 THEN Afternoon
    ELSE IF h > 17 /\ h < 22 THEN Evening
    ELSE Night

\* let block = "Night (10pm-6am)"; if ... else if ... else if ...
BlockOf(h) ==
    IF h >= 6 /\ h < 12 THEN Morning
    ELSE IF h >= 12 /\ h < 17 THEN Afternoon
    ELSE IF h >= 17 /\ h < 22 THEN Evening
    ELSE Night

\* session.intervals[0] is undefined for a session without intervals, and
\* reading .startTime of it throws a TypeError.
Malformed(session) == session.intervals = << >>

\* new Date(session.intervals[0].startTime).getHours()
StartHourOf(session) == session.intervals[1]

\* The body of the forEach callback for one well-formed session.
Accumulate(tbr, session) ==
    LET b == BlockOf(StartHourOf(session))
    IN [tbr EXCEPT ![b] = [totalRating |-> @.totalRating + session.rating,
                           count |-> @.count + 1]]

\* Mutant of Replaces: >= in place of >.
ReplacesOnTie(total, count, maxAvg) ==
    total * maxAvg.den >= maxAvg.num * count

\* avg > maxAvg for avg = total / count; maxAvg is kept as the exact
\* quotient num / den.
Replaces(total, count, maxAvg) ==
    total * maxAvg.den > maxAvg.num * count

RECURSIVE PeakLoop(_, _, _, _)
\* for (const block in timeBlockRatings) { ... } from the i-th key on, with
\* the current values of peakProductivityTime and maxAvg.
PeakLoop(tbr, i, peak, maxAvg) ==
    IF i > Len(BlockOrder) THEN peak
    ELSE LET b == BlockOrder[i]
         IN IF tbr[b].count > 0
                /\ Replaces(tbr[b].totalRating, tbr[b].count, maxAvg)
            THEN PeakLoop(tbr, i + 1, b,
                          [num |-> tbr[b].totalRating, den |-> tbr[b].count])
            ELSE PeakLoop(tbr, i + 1, peak, maxAvg)

\* let peakProductivityTime = "Not enough data"; let maxAvg = 0; for ...
SelectPeak(tbr) == PeakLoop(tbr, 1, NotEnoughData, [num |-> 0, den |-> 1])

\* Sessions the forEach loop of PeakSpec is fed: any start hour and rating.
PeakDocs ==
    {SessionDoc(TargetUser, "completed", TRUE, r, {}, <<h>>) :
        r \in Ratings, h \in Hours}
NoIntervals == SessionDoc(TargetUser, "completed", TRUE, MaxRating, {}, << >>)

RECURSIVE AccumulateCopies(_, _, _)
\* The forEach callback applied to n copies of one session.
AccumulateCopies(tbr, session, n) ==
    IF n = 0 THEN tbr
    ELSE AccumulateCopies(Accumulate(tbr, session), session, n - 1)

RECURSIVE ForEach(_, _, _)
\* sessions.forEach(...) over the documents D of the query result found.
ForEach(tbr, D, found) ==
    IF D = {} THEN tbr
    ELSE LET d == CHOOSE x \in D : TRUE
         IN ForEach(AccumulateCopies(tbr, d, CopiesIn(d, found)), D \ {d}, found)

\* Session.find({ userId, status: "completed", rating: { $exists: true } })
Find(db) == {d \in BagToSet(db) : Eligible(d)}

\* What a call of analyzePeakTime on collection db ends with: the returned
\* peakProductivityTime, or the TypeError of a session without intervals.
analyzePeakTime(db) ==
    IF \E d \in Find(db) : Malformed(d)
    THEN [threw |-> TRUE, peakProductivityTime |-> NotEnoughData]
    ELSE [threw |-> FALSE,
          peakProductivityTime |-> SelectPeak(ForEach(EmptyRatings, Find(db), db))]

\* ------------------------------------------------------ runAllAnalysesForUser
Runs == {"r1", "r2"}
\* Texts the generative model may answer with.
Texts == {"insight A", "insight B"}

RECURSIVE Join(_)
\* Array.prototype.join(', ')
Join(a) ==
    IF Len(a) = 0 THEN ""
    ELSE IF Len(a) = 1 THEN a[1]
    ELSE a[1] \o ", " \o Join(Tail(a))

\* Mutant of Render: the list joined, with no placeholder.
RenderAsIs(a) == Join(a)

\* ${list.join(', ') || 'None yet'}
Render(a) == IF Join(a) = "" THEN "None yet" ELSE Join(a)

\* The three substitutions of the prompt template; its fixed text is left out.
Prompt(top, improvement, peak) ==
    [best |-> Render(top), challenging |-> Render(improvement), peakTime |-> peak]

NoLocal ==
    [topPerformingTags |-> << >>, improvementAreaTags |-> << >>,
     peakProductivityTime |-> "", habitAnalysis |-> ""]

\* The aiInsights the user document holds before any run.
PriorInsights ==
    [topPerformingTags |-> <<"reading">>, improvementAreaTags |-> <<"reading">>,
     peakProductivityTime |-> Night, habitAnalysis |-> "earlier insight"]

\* Mutant of SetInsights: the habitAnalysis field left out of the $set.
SetInsightsWithoutAnalysis(doc, l) ==
    [doc EXCEPT !.topPerformingTags = l.topPerformingTags,
                !.improvementAreaTags = l.improvementAreaTags,
                !.peakProductivityTime = l.peakProductivityTime]

\* User.findByIdAndUpdate(userId, { $set: { "aiInsights.topPerformingTags": ...,
\* "aiInsights.improvementAreaTags": ..., "aiInsights.peakProductivityTime": ...,
\* "aiInsights.habitAnalysis": ... } }): one update of the four fields.
SetInsights(doc, l) ==
    [doc EXCEPT !.topPerformingTags = l.topPerformingTags,
                !.improvementAreaTags = l.improvementAreaTags,
                !.peakProductivityTime = l.peakProductivityTime,
                !.habitAnalysis = l.habitAnalysis]

\* Mutant of Catch: no catch clause, the exception leaves the function.
CatchMissing(r) ==
    /\ pc' = [pc EXCEPT ![r] = "done"]
    /\ outcome' = [outcome EXCEPT ![r] = "error"]
    /\ escaped' = [escaped EXCEPT ![r] = TRUE]

\* catch (error) { console.error(`... for user ${userId}:`, error); } and the
\* normal return after it.
Catch(r) ==
    /\ pc' = [pc EXCEPT ![r] = "done"]
    /\ outcome' = [outcome EXCEPT ![r] = "error"]
    /\ escaped' = escaped

\* A caller invokes runAllAnalysesForUser(userId): the function runs to its
\* first await, the aggregate of analyzeTagPerformance.
Start(r) ==
    /\ pc[r] = "idle"
    /\ pc' = [pc EXCEPT ![r] = "tags"]
    /\ UNCHANGED <<local, outcome, escaped, calls, insights, outside>>

\* The aggregate resolves: analyzeTagPerformance returns, analyzePeakTime is
\* called and awaits its find.
TagsResolve(r) ==
    /\ pc[r] = "tags"
    /\ \E t \in analyzeTagPerformance(sessions) :
          local' = [local EXCEPT ![r].topPerformingTags = t.topPerformingTags,
                                 ![r].improvementAreaTags = t.improvementAreaTags]
    /\ pc' = [pc EXCEPT ![r] = "peak"]
    /\ UNCHANGED <<outcome, escaped, calls, insights, outside>>

\* The aggregate rejects (or new ObjectId(userId) throws).
TagsReject(r) ==
    /\ pc[r] = "tags"
    /\ Catch(r)
    /\ UNCHANGED <<local, calls, insights, outside>>

\* The find resolves with well-formed sessions: analyzePeakTime returns, the
\* prompt is built and model.generateContent(prompt) is called and awaited.
PeakResolve(r) ==
    /\ pc[r] = "peak"
    /\ ~analyzePeakTime(sessions).threw
    /\ LET peak == analyzePeakTime(sessions).peakProductivityTime
       IN /\ local' = [local EXCEPT ![r].peakProductivityTime = peak]
          /\ calls' = [calls EXCEPT ![r] =
                          Append(@, Prompt(local[r].topPerformingTags,
                                           local[r].improvementAreaTags, peak))]
    /\ pc' = [pc EXCEPT ![r] = "generate"]
    /\ UNCHANGED <<outcome, escaped, insights, outside>>

\* The find resolves with a session without intervals: the forEach callback
\* throws.
PeakThrow(r) ==
    /\ pc[r] = "peak"
    /\ analyzePeakTime(sessions).threw
    /\ Catch(r)
    /\ UNCHANGED <<local, calls, insights, outside>>

\* The find rejects.
PeakReject(r) ==
    /\ pc[r] = "peak"
    /\ Catch(r)
    /\ UNCHANGED <<local, calls, insights, outside>>

\* generateContent resolves and response.text() gives the generated text;
\* User.findByIdAndUpdate is called and awaited.
GenerateResolve(r) ==
    /\ pc[r] = "generate"
    /\ \E text \in Texts : local' = [local EXCEPT ![r].habitAnalysis = text]
    /\ pc' = [pc EXCEPT ![r] = "update"]
    /\ UNCHANGED <<outcome, escaped, calls, insights, outside>>

\* generateContent rejects, or result.response or response.text() throws.
GenerateReject(r) ==
    /\ pc[r] = "generate"
    /\ Catch(r)
    /\ UNCHANGED <<local, calls, insights, outside>>

\* The update resolves, the user document holding the four fields; the success
\* is logged and the function returns.
UpdateResolve(r) ==
    /\ pc[r] = "update"
    /\ insights' = SetInsights(insights, local[r])
    /\ pc' = [pc EXCEPT ![r] = "done"]
    /\ outcome' = [outcome EXCEPT ![r] = "success"]
    /\ UNCHANGED <<local, escaped, calls, outside>>

\* The update rejects; a rejected update has changed nothing.
UpdateReject(r) ==
    /\ pc[r] = "update"
    /\ Catch(r)
    /\ UNCHANGED <<local, calls, insights, outside>>

\* The steps of run r after its start: the settling of the promise it awaits.
RunStep(r) ==
    \/ TagsResolve(r) \/ TagsReject(r)
    \/ PeakResolve(r) \/ PeakThrow(r) \/ PeakReject(r)
    \/ GenerateResolve(r) \/ GenerateReject(r)
    \/ UpdateResolve(r) \/ UpdateReject(r)

\* Sessions stored while runs are in flight: a top-rated session on coding and
\* meetings starting at 8, or a rated session that has no interval.
RunDocs ==
    {SessionDoc(TargetUser, "completed", TRUE, MaxRating,
                {"coding", "meetings"}, <<8>>),
     NoIntervals}

RunIdle ==
    /\ pc = [r \in Runs |-> "idle"]
    /\ local = [r \in Runs |-> NoLocal]
    /\ outcome = [r \in Runs |-> "none"]
    /\ escaped = [r \in Runs |-> FALSE]
    /\ calls = [r \in Runs |-> << >>]
    /\ insights = PriorInsights

\* ------------------------------------------------------------------ actions
\* The surrounding application stores one more session document.
CompleteSession(Docs, bound) ==
    /\ BagCardinality(sessions) < BagCardinality(Background) + bound
    /\ \E d \in Docs : sessions' = sessions (+) SetToBag({d})

TagCollect ==
    /\ tagPc = "collect"
    /\ CompleteSession(TagDocs, MaxSessions)
    /\ UNCHANGED <<tagVars, peakVars, runVars>>

\* A call of analyzeTagPerformance on the collection as it stands.
TagEvaluate ==
    /\ tagPc = "collect"
    /\ \E r \in analyzeTagPerformance(sessions) : tagResult' = r
    /\ tagPc' = "evaluated"
    /\ UNCHANGED <<sessions, peakVars, runVars>>

\* Another call on the same, unchanged collection.
TagReevaluate ==
    /\ tagPc = "evaluated"
    /\ \E r \in analyzeTagPerformance(sessions) : tagResult' = r
    /\ UNCHANGED <<sessions, tagPc, peakVars, runVars>>

PeakIdle ==
    /\ pkPc = "loop"
    /\ timeBlockRatings = EmptyRatings
    /\ startHour = -1
    /\ block = Night
    /\ peakProductivityTime = NotEnoughData

TagIdle ==
    /\ tagPc = "collect"
    /\ tagResult = NoResult

TagInit ==
    /\ sessions = Background
    /\ TagIdle
    /\ PeakIdle
    /\ RunIdle

TagNext == TagCollect \/ TagEvaluate \/ TagReevaluate

TagSpec == TagInit /\ [][TagNext]_vars

\* ------------------------------------------------------------------ PeakSpec
\* One iteration of sessions.forEach on a well-formed session.
Iterations == timeBlockRatings[Morning].count + timeBlockRatings[Afternoon].count
                + timeBlockRatings[Evening].count + timeBlockRatings[Night].count

ForEachStep ==
    /\ pkPc = "loop"
    /\ Iterations < MaxSessions
    /\ \E session \in PeakDocs :
          /\ startHour' = StartHourOf(session)
          /\ block' = BlockOf(StartHourOf(session))
          /\ timeBlockRatings' = Accumulate(timeBlockRatings, session)
    /\ UNCHANGED <<pkPc, peakProductivityTime, sessions, tagVars, runVars>>

\* An iteration on a session without intervals: the TypeError leaves
\* analyzePeakTime.
ForEachThrow ==
    /\ pkPc = "loop"
    /\ Iterations < MaxSessions
    /\ Malformed(NoIntervals)
    /\ pkPc' = "threw"
    /\ UNCHANGED <<timeBlockRatings, startHour, block, peakProductivityTime,
                   sessions, tagVars, runVars>>

\* The loop over the blocks and the return.
PeakReturn ==
    /\ pkPc = "loop"
    /\ peakProductivityTime' = SelectPeak(timeBlockRatings)
    /\ pkPc' = "returned"
    /\ UNCHANGED <<timeBlockRatings, startHour, block, sessions, tagVars,
                   runVars>>

PeakInit ==
    /\ sessions = Background
    /\ TagIdle
    /\ PeakIdle
    /\ RunIdle

PeakNext == ForEachStep \/ ForEachThrow \/ PeakReturn

PeakSpec == PeakInit /\ [][PeakNext]_vars

\* ---------------------------------------------------------------------- Spec
\* Runs of runAllAnalysesForUser for one user, overlapping in any way, while
\* sessions are stored.
StoreSession ==
    /\ CompleteSession(RunDocs, MaxSessions)
    /\ UNCHANGED <<tagVars, peakVars, runVars>>

Invoke ==
    /\ \E r \in Runs : Start(r)
    /\ UNCHANGED <<sessions, tagVars, peakVars>>

Settle ==
    /\ \E r \in Runs : RunStep(r)
    /\ UNCHANGED <<sessions, tagVars, peakVars>>

Init ==
    /\ sessions = Background
    /\ TagIdle
    /\ PeakIdle
    /\ RunIdle

Next ==
    \/ StoreSession
    \/ \E r \in Runs : Start(r) \/ RunStep(r)

Spec == Init /\ [][Next]_vars

\* Every promise a run awaits settles, and the run is then resumed.
Fairness == \A r \in Runs : WF_vars(RunStep(r))

FairSpec == Spec /\ Fairness

\* ------------------------------------------------- what the claims speak of
\* The eligible sessions carrying tag t: sessions of the target user,
\* completed, with a rating (each as often as the collection holds it).
EligibleWith(t) ==
    {d \in BagToSet(sessions) :
        /\ d.userId = TargetUser
        /\ d.status = "completed"
        /\ d.hasRating
        /\ t \in d.tags}

RECURSIVE Copies(_)
\* number of sessions in the set D of distinct documents
Copies(D) ==
    IF D = {} THEN 0
    ELSE LET d == CHOOSE x \in D : TRUE
         IN CopiesIn(d, sessions) + Copies(D \ {d})

RECURSIVE RatingTotal(_)
\* sum of the ratings of the sessions in D
RatingTotal(D) ==
    IF D = {} THEN 0
    ELSE LET d == CHOOSE x \in D : TRUE
         IN d.rating * CopiesIn(d, sessions) + RatingTotal(D \ {d})

SampleCount(t) == Copies(EligibleWith(t))

Qualifying == {t \in Tags : SampleCount(t) > 2}

\* mean rating of s <= mean rating of t, for tags with samples
MeanLeq(s, t) ==
    RatingTotal(EligibleWith(s)) * SampleCount(t)
        <= RatingTotal(EligibleWith(t)) * SampleCount(s)

Range(a) == {a[i] : i \in 1..Len(a)}
Evaluated == tagPc = "evaluated"

\* C4: a tag carried by at most 2 eligible sessions never appears in
\* topPerformingTags or improvementAreaTags.
C4_FloorExcludes ==
    Evaluated =>
        \A t \in Range(tagResult.topPerformingTags)
                  \cup Range(tagResult.improvementAreaTags) : SampleCount(t) > 2

\* C4 witness: a tag with one or two samples was left out while another tag
\* was ranked.
C4_Witness ==
    /\ Evaluated
    /\ tagResult.topPerformingTags # << >>
    /\ \E t \in Tags : SampleCount(t) \in 1..2

\* C5: when some tag qualifies, improvementAreaTags[0] is a qualifying tag of
\* lowest mean rating and topPerformingTags[0] one of highest mean rating.
C5_Extremes ==
    (Evaluated /\ Qualifying # {}) =>
        /\ tagResult.topPerformingTags # << >>
        /\ tagResult.improvementAreaTags # << >>
        /\ LET best == tagResult.topPerformingTags[1]
               worst == tagResult.improvementAreaTags[1]
           IN /\ best \in Qualifying
              /\ worst \in Qualifying
              /\ \A t \in Qualifying : MeanLeq(t, best) /\ MeanLeq(worst, t)

\* C5 witness: two qualifying tags of different mean rating were ranked.
C5_Witness ==
    /\ Evaluated
    /\ \E s, t \in Qualifying : ~MeanLeq(s, t)
    /\ tagResult.topPerformingTags[1] # tagResult.improvementAreaTags[1]

\* C6: both lists have length min(3, number of qualifying tags).
C6_Lengths ==
    Evaluated =>
        /\ Len(tagResult.topPerformingTags) = Min(3, Cardinality(Qualifying))
        /\ Len(tagResult.improvementAreaTags) = Min(3, Cardinality(Qualifying))

\* C6 witness: four tags qualify and the lists are cut to three.
C6_Witness ==
    /\ Evaluated
    /\ Cardinality(Qualifying) = 4
    /\ Len(tagResult.topPerformingTags) = 3

\* C9 (as claimed): two evaluations of analyzeTagPerformance on the same
\* collection return identical lists, ties included.
C9_Deterministic ==
    [][tagPc = "evaluated" => tagResult' = tagResult]_vars

\* ---------------------------------------------------------- peak-time claims
\* The four time blocks as half-open hour ranges; Night is every other hour.
BlockRanges ==
    <<[lo |-> 6, hi |-> 12, label |-> Morning],
      [lo |-> 12, hi |-> 17, label |-> Afternoon],
      [lo |-> 17, hi |-> 22, label |-> Evening]>>

RangesHolding(h) ==
    {i \in 1..Len(BlockRanges) : BlockRanges[i].lo <= h /\ h < BlockRanges[i].hi}

RangeBlock(h) ==
    IF RangesHolding(h) = {} THEN Night
    ELSE BlockRanges[CHOOSE i \in RangesHolding(h) : TRUE].label

\* C7: every iteration on a session of start hour h in 0..23 adds the session
\* to exactly one block, the one whose half-open range holds h (Night when
\* none does), so hours 6, 12, 17, 22 open their own block.
C7_HalfOpenBlocks ==
    [][Iterations' = Iterations + 1 =>
        /\ startHour' \in Hours
        /\ Cardinality(RangesHolding(startHour')) <= 1
        /\ block' = RangeBlock(startHour')
        /\ timeBlockRatings'[block'].count = timeBlockRatings[block'].count + 1
        /\ \A b \in Blocks \ {block'} :
              timeBlockRatings'[b] = timeBlockRatings[b]]_vars

\* C7 witness: a session starting at hour 17 has been added to Evening, after
\* sessions starting at 6, 12 and 22 were added to their blocks.
C7_Witness ==
    /\ startHour = 17
    /\ block = Evening
    /\ \A b \in Blocks : timeBlockRatings[b].count = 1

Populated == {b \in Blocks : timeBlockRatings[b].count > 0}
\* mean rating of block a <= mean rating of block b, both populated
BlockMeanLeq(a, b) ==
    timeBlockRatings[a].totalRating * timeBlockRatings[b].count
        <= timeBlockRatings[b].totalRating * timeBlockRatings[a].count
Highest == {b \in Populated : \A a \in Populated : BlockMeanLeq(a, b)}
Position(b) == CHOOSE i \in 1..Len(BlockOrder) : BlockOrder[i] = b

\* C2 (as claimed): analyzePeakTime returns a populated block of maximal mean
\* rating (the one block, when a single block is strictly maximal), and
\* "Not enough data" exactly when no block is populated.
C2_PeakIsMaximal ==
    pkPc = "returned" =>
        IF Populated = {} THEN peakProductivityTime = NotEnoughData
        ELSE peakProductivityTime \in Highest

\* C10 (as claimed): when two or more populated blocks share the highest mean
\* rating, the first of them in the order Morning, Afternoon, Evening, Night
\* is returned.
C10_FirstOnTie ==
    (pkPc = "returned" /\ Cardinality(Highest) >= 2) =>
        /\ peakProductivityTime \in Highest
        /\ \A b \in Highest : Position(peakProductivityTime) <= Position(b)

\* What the code does in the cases C2 and C10 cover: with a highest mean above
\* 0 the first block of highest mean is returned; otherwise "Not enough data".
HighestIsPositive == \E b \in Highest : timeBlockRatings[b].totalRating > 0
PeakAboveBaseline ==
    pkPc = "returned" =>
        IF HighestIsPositive
        THEN /\ peakProductivityTime \in Highest
             /\ \A b \in Highest : Position(peakProductivityTime) <= Position(b)
        ELSE peakProductivityTime = NotEnoughData

\* ------------------------------------------------------- orchestrator claims
\* The step is one of run r.
StepOf(r) == pc'[r] # pc[r]

\* C1: whichever await of a run fails (the aggregate, the find or a session
\* without intervals, the generative call, the update), the run returns
\* normally with the failure logged, no exception leaves it, and no step of a
\* run that does not succeed changes the persisted insights.
C1_FaultsSwallowed ==
    [][\A r \in Runs :
          StepOf(r) =>
              /\ ~escaped'[r]
              /\ outcome'[r] = "error" => pc'[r] = "done"
              /\ pc'[r] = "done" => outcome'[r] \in {"success", "error"}
              /\ outcome'[r] # "success" => insights' = insights]_vars

\* C1 witness: one run failed at the generative call and the other at the
\* update, and the insights are the ones held before.
C1_Witness ==
    /\ outcome = [r \in Runs |-> "error"]
    /\ \E r \in Runs : Len(calls[r]) = 1 /\ local[r].habitAnalysis = ""
    /\ \E r \in Runs : local[r].habitAnalysis \in Texts
    /\ insights = PriorInsights

\* The four fields run r computed.
Output(r) ==
    [topPerformingTags |-> local[r].topPerformingTags,
     improvementAreaTags |-> local[r].improvementAreaTags,
     peakProductivityTime |-> local[r].peakProductivityTime,
     habitAnalysis |-> local[r].habitAnalysis]

\* C3: the persisted insights are always the earlier ones or the whole output
\* of one run that succeeded; they change only in the single step that ends a
\* run's update, after its analyzers and its generative call completed, and
\* then hold that run's four fields (so the last write wins).
C3_WholeOutputOfOneRun ==
    /\ [](\/ insights = PriorInsights
          \/ \E r \in Runs : outcome[r] = "success" /\ insights = Output(r))
    /\ [][insights' # insights =>
            \E r \in Runs :
                /\ pc[r] = "update" /\ pc'[r] = "done"
                /\ outcome'[r] = "success"
                /\ Len(calls[r]) = 1
                /\ local[r].habitAnalysis \in Texts
                /\ local[r].peakProductivityTime \in Blocks \cup {NotEnoughData}
                /\ insights' = Output(r)]_vars

\* C3 witness: while one run still awaits its update, the other has written;
\* the insights are the second run's output and differ from the first's.
C3_Witness ==
    \E r, q \in Runs :
        /\ pc[r] = "update"
        /\ outcome[q] = "success"
        /\ insights = Output(q)
        /\ Output(r).topPerformingTags # Output(q).topPerformingTags
        /\ Output(r).habitAnalysis # Output(q).habitAnalysis

HasEligible ==
    \E d \in BagToSet(sessions) :
        d.userId = TargetUser /\ d.status = "completed" /\ d.hasRating

PlaceholderPrompt ==
    [best |-> "None yet", challenging |-> "None yet", peakTime |-> NotEnoughData]

FallbackProfile(text) ==
    [topPerformingTags |-> << >>, improvementAreaTags |-> << >>,
     peakProductivityTime |-> NotEnoughData, habitAnalysis |-> text]

FallbackPersisted(r) ==
    /\ calls[r] = <<PlaceholderPrompt>>
    /\ local[r].habitAnalysis \in Texts
    /\ insights = FallbackProfile(local[r].habitAnalysis)

\* C8: a run started while the user has no eligible session ends; if no await
\* of it failed and no eligible session was stored meanwhile, it has called
\* the generative model exactly once, with both tag lists rendered "None yet"
\* and the peak time "Not enough data", and has persisted the empty lists,
\* "Not enough data" and the returned text as it was returned.
C8_FallbackProfile ==
    \A r \in Runs :
        (pc[r] = "tags" /\ ~HasEligible)
            ~> (/\ pc[r] = "done"
                /\ (outcome[r] = "success" /\ ~HasEligible) => FallbackPersisted(r))

\* C8 witness: a run has succeeded with no eligible session stored and the
\* fallback profile is persisted.
C8_Witness ==
    \E r \in Runs :
        /\ pc[r] = "done"
        /\ outcome[r] = "success"
        /\ ~HasEligible
        /\ FallbackPersisted(r)

====
